---- MODULE Spec2Model ----
(***************************************************************************)
(* Model of scripts/summarize_changes.py: the documentation-changelog      *)
(* generator.  A run of main() walks the list of "STATUS:path" arguments,  *)
(* fetches the diff or content of each documentation file, asks the        *)
(* summarization service for fragments (generate_summary, with its retry   *)
(* loop), assembles changelog entries and prepends one batch to the        *)
(* persisted history (update_json_data).                                   *)
(*                                                                         *)
(* Text is modelled as a sequence of one-character strings, so that the    *)
(* string functions of the script (lower, strip, title, replace, split,    *)
(* basename, endswith, the two re.sub of slugify) are computed character   *)
(* by character.  A few fixed texts that no function looks into are kept   *)
(* as a single element (base_url, the two fixed Korean sentences, which    *)
(* are written here in ASCII).                                             *)
(***************************************************************************)
EXTENDS Integers, Sequences, FiniteSets, TLC

(***************************************************************************)
(* Bounds of the model.                                                    *)
(***************************************************************************)
MaxFiles == 2        \* longest argument list of a run
MaxHeaderLen == 2    \* longest header drawn from HeaderAlphabet
MaxBatches == 3      \* longest persisted history built by repeated calls

(***************************************************************************)
(* Python str helpers.                                                     *)
(***************************************************************************)
UpperChars == <<"A","B","C","D","E","F","G","H","I","J","K","L","M",
                "N","O","P","Q","R","S","T","U","V","W","X","Y","Z">>
LowerChars == <<"a","b","c","d","e","f","g","h","i","j","k","l","m",
                "n","o","p","q","r","s","t","u","v","w","x","y","z">>
Digits == {"0","1","2","3","4","5","6","7","8","9"}

IsUpper(c) == \E i \in 1..26 : UpperChars[i] = c
IsLower(c) == \E i \in 1..26 : LowerChars[i] = c
IsCased(c) == IsUpper(c) \/ IsLower(c)
\* \s of the re module
IsSpace(c) == c \in {" ", "\t", "\n"}
\* \w of the re module
IsWordChar(c) == IsCased(c) \/ c \in Digits \/ c = "_"

LowerChar(c) == IF IsUpper(c) THEN LowerChars[CHOOSE i \in 1..26 : UpperChars[i] = c] ELSE c
UpperChar(c) == IF IsLower(c) THEN UpperChars[CHOOSE i \in 1..26 : LowerChars[i] = c] ELSE c

\* str.lower()
Lower(s) == [i \in 1..Len(s) |-> LowerChar(s[i])]

RECURSIVE LStrip(_)
LStrip(s) == IF s # <<>> /\ IsSpace(s[1]) THEN LStrip(Tail(s)) ELSE s
RECURSIVE RStrip(_)
RStrip(s) == IF s # <<>> /\ IsSpace(s[Len(s)]) THEN RStrip(SubSeq(s, 1, Len(s) - 1)) ELSE s
\* str.strip()
Strip(s) == RStrip(LStrip(s))

StartsWith(s, p) == Len(p) <= Len(s) /\ SubSeq(s, 1, Len(p)) = p
\* str.endswith(p)
EndsWith(s, p) == Len(p) <= Len(s) /\ SubSeq(s, Len(s) - Len(p) + 1, Len(s)) = p
\* p in s
Contains(s, p) == \E i \in 1..(Len(s) - Len(p) + 1) : SubSeq(s, i, i + Len(p) - 1) = p

\* str.replace(old, new): every non-overlapping occurrence, left to right
RECURSIVE Replace(_, _, _)
Replace(s, old, new) ==
    IF Len(s) < Len(old) \/ old = <<>> THEN s
    ELSE IF StartsWith(s, old)
         THEN new \o Replace(SubSeq(s, Len(old) + 1, Len(s)), old, new)
         ELSE <<s[1]>> \o Replace(Tail(s), old, new)

\* str.title(): a cased character is upper-cased when the character before
\* it is not cased, lower-cased otherwise
RECURSIVE TitleFrom(_, _)
TitleFrom(s, prevCased) ==
    IF s = <<>> THEN <<>>
    ELSE <<IF prevCased THEN LowerChar(s[1]) ELSE UpperChar(s[1])>>
         \o TitleFrom(Tail(s), IsCased(s[1]))
Title(s) == TitleFrom(s, FALSE)

\* str.split(sep, 1) for a one-character sep that occurs in s
FirstIndex(s, c) == CHOOSE i \in 1..Len(s) : s[i] = c /\ \A j \in 1..(i - 1) : s[j] # c
SplitOnce(s, c) == <<SubSeq(s, 1, FirstIndex(s, c) - 1), SubSeq(s, FirstIndex(s, c) + 1, Len(s))>>

\* os.path.basename: what follows the last "/"
RECURSIVE Basename(_)
Basename(p) ==
    IF \E i \in 1..Len(p) : p[i] = "/"
    THEN Basename(SubSeq(p, FirstIndex(p, "/") + 1, Len(p)))
    ELSE p

(***************************************************************************)
(* slugify                                                                 *)
(***************************************************************************)
\* re.sub(r'[^\w\s-]', '', text)
DropNonWord(s) == SelectSeq(s, LAMBDA c : IsWordChar(c) \/ IsSpace(c) \/ c = "-")

IsSep(c) == IsSpace(c) \/ c = "_" \/ c = "-"
\* re.sub(r'[\s_-]+', '-', text)
RECURSIVE CollapseSeps(_)
CollapseSeps(s) ==
    IF s = <<>> THEN <<>>
    ELSE IF IsSep(s[1])
         THEN IF Len(s) > 1 /\ IsSep(s[2])
              THEN CollapseSeps(Tail(s))
              ELSE <<"-">> \o CollapseSeps(Tail(s))
         ELSE <<s[1]>> \o CollapseSeps(Tail(s))

slugify(text) == CollapseSeps(DropNonWord(Strip(Lower(text))))

(***************************************************************************)
(* JSON values, as json.loads returns them and json.dumps writes them.     *)
(***************************************************************************)
JNull == [t |-> "null"]
JNum(n) == [t |-> "num", v |-> n]
JStr(s) == [t |-> "str", v |-> s]
JList(items) == [t |-> "list", v |-> items]
JDict(r) == [t |-> "dict", v |-> r]

\* truth value of a Python object: None, "" and 0 are false
Truthy(x) == CASE x.t = "null" -> FALSE
               [] x.t = "num" -> x.v # 0
               [] x.t = "dict" -> DOMAIN x.v # {}
               [] OTHER -> x.v # <<>>

\* dict.get(key, default)
DictGet(d, key, default) == IF key \in DOMAIN d.v THEN d.v[key] ELSE default

RECURSIVE SetToSeq(_)
SetToSeq(S) == IF S = {} THEN <<>> ELSE LET e == CHOOSE e \in S : TRUE IN <<e>> \o SetToSeq(S \ {e})

\* for item in x: a list yields its elements, a dict its keys, a str its
\* characters; anything else raises TypeError
Iterable(x) == x.t \in {"list", "dict", "str"}
Items(x) == CASE x.t = "list" -> x.v
              [] x.t = "dict" -> LET ks == SetToSeq(DOMAIN x.v) IN [i \in 1..Len(ks) |-> JStr(<<ks[i]>>)]
              [] x.t = "str" -> [i \in 1..Len(x.v) |-> JStr(<<x.v[i]>>)]
              [] OTHER -> <<>>

(***************************************************************************)
(* Fixed texts of the script.                                              *)
(***************************************************************************)
DocExt == <<".", "m", "d">>
Overview == <<"O", "v", "e", "r", "v", "i", "e", "w">>
overview == <<"o", "v", "e", "r", "v", "i", "e", "w">>
base_url == <<"https://code.claude.com/docs/en">>
\* the Korean sentence "the document was deleted"
DeletedSummary == <<"[document deleted]">>
\* the Korean tail of the fallback summary, " document was updated"
UpdatedSuffix == <<" [document updated]">>
RateLimitMarker == <<"4", "2", "9">>

(***************************************************************************)
(* main: the per-argument parsing and the entry assembly.                  *)
(***************************************************************************)
\* "STATUS:FILENAME" or just "FILENAME"
ParseArg(file_arg) ==
    IF Contains(file_arg, <<":">>)
    THEN SplitOnce(file_arg, ":")
    ELSE <<<<"M">>, file_arg>>
StatusOf(file_arg) == ParseArg(file_arg)[1]
PathOf(file_arg) == ParseArg(file_arg)[2]
FilenameOf(file_arg) == Basename(PathOf(file_arg))

\* variant: endswith('md')
IsDocNoDot(filename) == EndsWith(filename, <<"m", "d">>)
IsDoc(filename) == EndsWith(filename, DocExt)

tag_text(status) == CASE status = <<"A">> -> "NEW"
                      [] status = <<"D">> -> "DELETE"
                      [] OTHER -> "UPDATE"
tag_class(status) == CASE status = <<"A">> -> "new"
                       [] status = <<"D">> -> "delete"
                       [] OTHER -> "update"

\* variant: the status compared in lower case
IsDeletedLowercase(status) == status = <<"d">>
IsDeleted(status) == status = <<"D">>
IsNew(status) == status = <<"A">>

\* the title of an entry: plain text, or an <a href=url> around the text
PlainTitle(text) == [link |-> FALSE, href |-> <<>>, text |-> text]
LinkTitle(url, text) == [link |-> TRUE, href |-> url, text |-> text]

DeletedEntry(filename, status) ==
    [title |-> PlainTitle(Title(Replace(filename, DocExt, <<>>))),
     summary |-> JStr(DeletedSummary),
     tag_text |-> tag_text(status),
     tag_class |-> tag_class(status)]

file_basename(filename) == Replace(filename, DocExt, <<>>)

\* variant: only 'overview' and '' link to the top
LinksToTopOverviewOnly(header, filename) == Lower(header) \in {overview, <<>>}

\* header.lower() in ['overview', file_basename.lower(), filename.lower(), '']
LinksToTop(header, filename) ==
    Lower(header) \in {overview, Lower(file_basename(filename)), Lower(filename), <<>>}

TopUrl(filename) == base_url \o <<"/">> \o file_basename(filename)
AnchorUrl(filename, header) == TopUrl(filename) \o <<"#">> \o slugify(header)
DisplayName(filename) == Replace(Title(file_basename(filename)), <<"-">>, <<" ">>)

EntryTitle(header, filename) ==
    IF LinksToTop(header, filename)
    THEN LinkTitle(TopUrl(filename), DisplayName(filename))
    ELSE LinkTitle(AnchorUrl(filename, header),
                   DisplayName(filename) \o <<" ", ">", " ">> \o header)

\* item.get('header', 'Overview') and header.lower(): the item must be a
\* dict and its header a str, otherwise AttributeError
ItemRaises(item) ==
    \/ item.t # "dict"
    \/ DictGet(item, "header", JStr(Overview)).t # "str"

SummaryEntry(item, filename, status) ==
    [title |-> EntryTitle(DictGet(item, "header", JStr(Overview)).v, filename),
     summary |-> DictGet(item, "summary", JStr(<<>>)),
     tag_text |-> tag_text(status),
     tag_class |-> tag_class(status)]

\* the loop over summaries: the entries appended before the first item
\* that raises, and whether one raised
RECURSIVE AssembleItems(_, _, _)
AssembleItems(items, filename, status) ==
    IF items = <<>> THEN [entries |-> <<>>, raised |-> FALSE]
    ELSE IF ItemRaises(items[1]) THEN [entries |-> <<>>, raised |-> TRUE]
    ELSE LET rest == AssembleItems(Tail(items), filename, status)
         IN [entries |-> <<SummaryEntry(items[1], filename, status)>> \o rest.entries,
             raised |-> rest.raised]

AssembleSummaries(summaries, filename, status) ==
    IF ~Iterable(summaries) THEN [entries |-> <<>>, raised |-> TRUE]
    ELSE AssembleItems(Items(summaries), filename, status)

(***************************************************************************)
(* generate_summary: the retry loop.                                       *)
(***************************************************************************)
max_retries == 3
initial_retry_delay == 2

\* variant: backs off after any error
BacksOffAnyError(error_str, attempt) == attempt < max_retries - 1

\* "429" in error_str and attempt < max_retries - 1
BacksOff(error_str, attempt) ==
    Contains(error_str, RateLimitMarker) /\ attempt < max_retries - 1

\* variant: range(max_retries + 1)
HasNextAttemptOneMore(attempt) == attempt + 1 <= max_retries

\* the for loop has another iteration
HasNextAttempt(attempt) == attempt + 1 < max_retries

\* variant: the delay is not doubled
NextDelayConstant(retry_delay) == retry_delay

NextDelay(retry_delay) == retry_delay * 2

Fallback(filename) ==
    JList(<<JDict([header |-> JStr(Overview), summary |-> JStr(filename \o UpdatedSuffix)])>>)

(***************************************************************************)
(* The changelog store.                                                    *)
(***************************************************************************)
\* the file pages/changelog.json: absent, not parsable, or a JSON document
FileMissing == [kind |-> "missing"]
FileCorrupt == [kind |-> "corrupt"]
\* json.dumps / write_text
JsonFile(data) == [kind |-> "json", value |-> data]

load_changelog(file) == IF file.kind = "json" THEN file.value ELSE <<>>
save_changelog(data) == JsonFile(data)

NewBatch(updates, commit_hash, date_str) ==
    [date |-> date_str, commit_hash |-> commit_hash, entries |-> updates]

\* variant: history.append(new_entry)
InsertBack(history, new_entry) == Append(history, new_entry)

\* history.insert(0, new_entry)
InsertFront(history, new_entry) == <<new_entry>> \o history

\* update_json_data: the file it leaves and the history it returns
\* variant: no early return
IsNoOpNever(updates) == FALSE
IsNoOp(updates) == updates = <<>>
update_json_data(file, updates, commit_hash, date_str) ==
    IF IsNoOp(updates)
    THEN [file |-> file, history |-> load_changelog(file)]
    ELSE LET history == InsertFront(load_changelog(file), NewBatch(updates, commit_hash, date_str))
         IN [file |-> save_changelog(history), history |-> history]

\* render_blog_from_json: one group per batch that has entries
render_blog_from_json(history) ==
    LET groups == SelectSeq(history, LAMBDA g : g.entries # <<>>)
    IN [i \in 1..Len(groups) |->
           [display_date |-> <<"KST", groups[i].date>>,
            commit_hash |-> groups[i].commit_hash,
            entries |-> groups[i].entries]]

(***************************************************************************)
(* The environment of a run.                                               *)
(***************************************************************************)
\* the --files arguments the runs are checked with
ArgDeletedDoc == <<"D", ":", "d", "/", "f", "o", ".", "m", "d">>
ArgNewDoc == <<"A", ":", "n", "e", "w", ".", "m", "d">>
ArgBareDoc == <<"h", "o", "o", "k", "s", ".", "m", "d">>
ArgDeletedTxt == <<"D", ":", "d", "/", "a", ".", "t", "x", "t">>
ArgModifiedTxt == <<"M", ":", "m", "d">>
FileArgs == {ArgDeletedDoc, ArgNewDoc, ArgBareDoc, ArgDeletedTxt, ArgModifiedTxt}
ArgLists == UNION {[1..n -> FileArgs] : n \in 1..MaxFiles}

\* --commit-hash: absent or a short hash
Commits == {JNull, JStr(<<"a", "b", "c", "1">>)}
\* what get_commit_date or datetime.now returns
Dates == {"2026-01-28T15:04:31+00:00", "2026-01-29T09:00:00+00:00"}

\* get_git_diff: None when the query raised, else the (possibly empty) output
DiffText == <<"+", "x">>
DiffOutcomes == {JNull, JStr(<<>>), JStr(DiffText)}
\* git show / read_text of a new file: raises, or the (possibly empty) text
FileText == <<"#", " ", "T">>
ReadOutcomes == {[raised |-> TRUE, text |-> <<>>],
                 [raised |-> FALSE, text |-> <<>>],
                 [raised |-> FALSE, text |-> FileText]}

\* str(e) of a failed attempt: a rate-limit error of the API, another error
\* of the API, a json.loads error on an unparsable reply
ErrRateLimit == <<"4", "2", "9", " ", "q", "u", "o", "t", "a">>
ErrServer == <<"5", "0", "0", " ", "i", "n", "t">>
ErrParse == <<"E", "x", "p", "e", "c", "t", "i", "n", "g">>
Errors == {ErrRateLimit, ErrServer, ErrParse}

\* what json.loads(response.text) returns for a parsable reply
Frag(header, summary) == JDict([header |-> JStr(header), summary |-> JStr(summary)])
SectionHeader == <<"A", "p", "i", " ", "K", "e", "y">>
ReplyEmpty == JList(<<>>)
ReplyOverview == JList(<<Frag(Overview, <<"s", "1">>)>>)
ReplySections == JList(<<Frag(Overview, <<"s", "1">>), Frag(SectionHeader, <<"s", "2">>)>>)
ReplyNoHeader == JList(<<JDict([summary |-> JStr(<<"s", "3">>)])>>)
ReplyObject == Frag(Overview, <<"s", "1">>)
ReplyStrings == JList(<<JStr(<<"s", "1">>)>>)
ReplyNullHeader == JList(<<JDict([header |-> JNull, summary |-> JStr(<<"s", "1">>)])>>)
ReplyNull == JNull
WellFormedReplies == {ReplyEmpty, ReplyOverview, ReplySections, ReplyNoHeader}
MalformedReplies == {ReplyObject, ReplyStrings, ReplyNullHeader, ReplyNull}
Replies == WellFormedReplies \cup MalformedReplies

\* a batch an earlier run has written
OldEntry == DeletedEntry(<<"o", "l", "d", ".", "m", "d">>, <<"D">>)
OldBatch == NewBatch(<<OldEntry>>, JNull, "2026-01-28T15:04:31+00:00")

\* the revision argument and the persisted state a run starts with
Starts == {<<JNull, FileMissing>>,
           <<JStr(<<"a", "b", "c", "1">>), FileCorrupt>>,
           <<JStr(<<"a", "b", "c", "1">>), JsonFile(<<OldBatch>>)>>}

NoSummaries == [from |-> "none", value |-> JNull]

(***************************************************************************)
(* State.                                                                  *)
(***************************************************************************)
VARIABLES
    apiKey,         \* GEMINI_API_KEY is set
    args,           \* args.files
    commit_hash,    \* args.commit_hash
    changelog,      \* the file pages/changelog.json
    blog,           \* the file index.html: the rendered groups, or "unwritten"
    pc,             \* where the run is
    idx,            \* position of the for loop of main in args.files
    updates,        \* the list updates of main
    content,        \* the content of the file being summarized
    attempt,        \* loop variable of generate_summary
    retry_delay,    \* retry_delay of generate_summary
    summaries,      \* what generate_summary returned for the current file
    errs,           \* str(e) of the failed attempts for the current file
    sleeps,         \* the time.sleep calls made for the current file
    providerCalls,  \* diff/content queries made for the current file
    serviceCalls,   \* generate_content calls made for the current file
    ret             \* what update_json_data returned

vars == <<apiKey, args, commit_hash, changelog, blog, pc, idx, updates, content,
          attempt, retry_delay, summaries, errs, sleeps, providerCalls,
          serviceCalls, ret>>

InitLocals ==
    /\ blog = "unwritten"
    /\ idx = 1
    /\ updates = <<>>
    /\ content = JNull
    /\ attempt = 0
    /\ retry_delay = initial_retry_delay
    /\ summaries = NoSummaries
    /\ errs = <<>>
    /\ sleeps = <<>>
    /\ providerCalls = 0
    /\ serviceCalls = 0
    /\ ret = <<>>

Init ==
    /\ apiKey \in BOOLEAN
    /\ args \in ArgLists
    /\ \E start \in Starts : commit_hash = start[1] /\ changelog = start[2]
    /\ pc = "start"
    /\ InitLocals

(***************************************************************************)
(* main                                                                    *)
(***************************************************************************)
\* setup_gemini: sys.exit(1) without the API key
SetupGemini ==
    /\ pc = "start"
    /\ pc' = IF apiKey THEN "loop" ELSE "exited"
    /\ UNCHANGED <<apiKey, args, commit_hash, changelog, blog, idx, updates, content,
                   attempt, retry_delay, summaries, errs, sleeps, providerCalls,
                   serviceCalls, ret>>

InLoop == pc = "loop" /\ idx <= Len(args)

\* the top of an iteration: time.sleep(1), nothing fetched or summarized yet
BeginFile ==
    /\ sleeps' = <<1>>
    /\ errs' = <<>>
    /\ summaries' = NoSummaries
    /\ attempt' = 0
    /\ retry_delay' = initial_retry_delay

\* not a documentation file: continue
SkipOther ==
    /\ InLoop
    /\ ~IsDoc(FilenameOf(args[idx]))
    /\ BeginFile
    /\ idx' = idx + 1
    /\ providerCalls' = 0
    /\ serviceCalls' = 0
    /\ content' = JNull
    /\ UNCHANGED <<apiKey, args, commit_hash, changelog, blog, pc, updates, ret>>

\* status D: one fixed entry, continue
DeletedFile ==
    /\ InLoop
    /\ IsDoc(FilenameOf(args[idx]))
    /\ IsDeleted(StatusOf(args[idx]))
    /\ BeginFile
    /\ updates' = Append(updates, DeletedEntry(FilenameOf(args[idx]), StatusOf(args[idx])))
    /\ idx' = idx + 1
    /\ providerCalls' = 0
    /\ serviceCalls' = 0
    /\ content' = JNull
    /\ UNCHANGED <<apiKey, args, commit_hash, changelog, blog, pc, ret>>

\* status A or anything else: get the diff, for a new file without a diff
\* read the file; without content continue, else enter generate_summary
FetchContent ==
    /\ InLoop
    /\ IsDoc(FilenameOf(args[idx]))
    /\ ~IsDeleted(StatusOf(args[idx]))
    /\ BeginFile
    /\ \E diff \in DiffOutcomes, read \in ReadOutcomes :
          LET reads == IsNew(StatusOf(args[idx])) /\ ~Truthy(diff)
              got == IF reads THEN JStr(read.text) ELSE diff
          IN /\ (~reads => read = [raised |-> TRUE, text |-> <<>>])
             /\ content' = got
             /\ providerCalls' = IF reads THEN 2 ELSE 1
             /\ IF Truthy(got)
                THEN pc' = "gen" /\ idx' = idx
                ELSE pc' = "loop" /\ idx' = idx + 1
    /\ serviceCalls' = 0
    /\ UNCHANGED <<apiKey, args, commit_hash, changelog, blog, updates, ret>>

(***************************************************************************)
(* generate_summary: one attempt of the loop                               *)
(***************************************************************************)
\* generate_content answers and json.loads parses the answer: return it
AttemptSucceeds ==
    /\ pc = "gen"
    /\ \E reply \in Replies : summaries' = [from |-> "parsed", value |-> reply]
    /\ serviceCalls' = serviceCalls + 1
    /\ pc' = "assemble"
    /\ UNCHANGED <<apiKey, args, commit_hash, changelog, blog, idx, updates, content,
                   attempt, retry_delay, errs, sleeps, providerCalls, ret>>

\* generate_content or json.loads raises
AttemptFails ==
    /\ pc = "gen"
    /\ \E error_str \in Errors :
          /\ errs' = Append(errs, error_str)
          /\ IF BacksOff(error_str, attempt)
             THEN /\ sleeps' = Append(sleeps, retry_delay)
                  /\ retry_delay' = NextDelay(retry_delay)
             ELSE UNCHANGED <<sleeps, retry_delay>>
    /\ serviceCalls' = serviceCalls + 1
    /\ IF HasNextAttempt(attempt)
       THEN /\ attempt' = attempt + 1
            /\ UNCHANGED <<pc, summaries>>
       ELSE /\ summaries' = [from |-> "fallback", value |-> Fallback(FilenameOf(args[idx]))]
            /\ pc' = "assemble"
            /\ UNCHANGED attempt
    /\ UNCHANGED <<apiKey, args, commit_hash, changelog, blog, idx, updates, content,
                   providerCalls, ret>>

\* main, the loop over summaries; an item that raises ends the run
Assemble ==
    /\ pc = "assemble"
    /\ LET r == AssembleSummaries(summaries.value, FilenameOf(args[idx]), StatusOf(args[idx]))
       IN /\ updates' = updates \o r.entries
          /\ IF r.raised
             THEN pc' = "aborted" /\ idx' = idx
             ELSE pc' = "loop" /\ idx' = idx + 1
    /\ UNCHANGED <<apiKey, args, commit_hash, changelog, blog, content, attempt,
                   retry_delay, summaries, errs, sleeps, providerCalls, serviceCalls, ret>>

\* after the loop: if updates, update_json_data and render_blog_from_json
Finish ==
    /\ pc = "loop"
    /\ idx > Len(args)
    /\ pc' = "done"
    /\ IF updates # <<>>
       THEN \E date_str \in Dates :
               LET r == update_json_data(changelog, updates, commit_hash, date_str)
               IN /\ changelog' = r.file
                  /\ ret' = r.history
                  /\ blog' = render_blog_from_json(r.history)
       ELSE UNCHANGED <<changelog, ret, blog>>
    /\ UNCHANGED <<apiKey, args, commit_hash, idx, updates, content, attempt,
                   retry_delay, summaries, errs, sleeps, providerCalls, serviceCalls>>

Next ==
    \/ SetupGemini
    \/ SkipOther
    \/ DeletedFile
    \/ FetchContent
    \/ AttemptSucceeds
    \/ AttemptFails
    \/ Assemble
    \/ Finish

Spec == Init /\ [][Next]_vars

(***************************************************************************)
(* update_json_data called directly, any number of times, with any entry   *)
(* list (the empty one included) and any revision.                         *)
(***************************************************************************)
HooksFile == <<"h", "o", "o", "k", "s", ".", "m", "d">>
EntryLists == {<<>>,
               <<OldEntry>>,
               <<SummaryEntry(Frag(Overview, <<"s", "1">>), HooksFile, <<"M">>),
                 SummaryEntry(Frag(SectionHeader, <<"s", "2">>), HooksFile, <<"M">>)>>}

InitStore ==
    /\ apiKey = TRUE
    /\ args = <<ArgBareDoc>>
    /\ commit_hash = JNull
    /\ changelog \in {FileMissing, FileCorrupt}
    /\ pc = "store"
    /\ InitLocals

CallUpdateJsonData ==
    /\ pc = "store"
    /\ \E u \in EntryLists, c \in Commits, date_str \in Dates :
          LET r == update_json_data(changelog, u, c, date_str)
          IN /\ Len(r.history) <= MaxBatches
             /\ updates' = u
             /\ commit_hash' = c
             /\ changelog' = r.file
             /\ ret' = r.history
    /\ UNCHANGED <<apiKey, args, blog, pc, idx, content, attempt, retry_delay,
                   summaries, errs, sleeps, providerCalls, serviceCalls>>

NextStore == CallUpdateJsonData

SpecStore == InitStore /\ [][NextStore]_vars

(***************************************************************************)
(* The entry assembly of main applied to one fragment of any header.       *)
(***************************************************************************)
HeaderAlphabet == {"A", "a", " ", "-", "_", "!"}
BoundedHeaders == UNION {[1..n -> HeaderAlphabet] : n \in 0..MaxHeaderLen}
CustomToolConfig == <<"C", "u", "s", "t", "o", "m", " ", "T", "o", "o", "l", " ",
                      "C", "o", "n", "f", "i", "g">>
NamedHeaders == {Overview, overview,
                 <<"O", "V", "E", "R", "V", "I", "E", "W">>,
                 <<"o", "v", "e", "r", "v", "i", "e", "w", "s">>,
                 CustomToolConfig, SectionHeader,
                 <<"h", "o", "o", "k", "s">>, <<"H", "o", "o", "k", "s">>,
                 HooksFile, <<"H", "O", "O", "K", "S", ".", "M", "D">>,
                 <<"n", "e", "w">>, <<"N", "e", "w", ".", "m", "d">>,
                 <<"a", ".", "m", "d", "a">>, <<"a", "a", ".", "m", "d">>,
                 <<"B", "e", "s", "t", " ", "_", "P", "r", "a", "c", "!">>}
Headers == BoundedHeaders \cup NamedHeaders

ArgShortDoc == <<"M", ":", "a", ".", "m", "d">>
ArgTwiceExt == <<"a", ".", "m", "d", "a", ".", "m", "d">>
AssembleArgs == {ArgBareDoc, ArgNewDoc, ArgShortDoc, ArgTwiceExt}

InitAssemble ==
    /\ apiKey = TRUE
    /\ args \in {<<a>> : a \in AssembleArgs}
    /\ commit_hash = JNull
    /\ changelog = FileMissing
    /\ pc = "assemble"
    /\ blog = "unwritten"
    /\ idx = 1
    /\ updates = <<>>
    /\ content = JStr(DiffText)
    /\ attempt = 0
    /\ retry_delay = initial_retry_delay
    /\ \E h \in Headers :
          summaries = [from |-> "parsed", value |-> JList(<<Frag(h, <<"s", "1">>)>>)]
    /\ errs = <<>>
    /\ sleeps = <<1>>
    /\ providerCalls = 1
    /\ serviceCalls = 1
    /\ ret = <<>>

NextAssemble == Assemble \/ Finish

SpecAssemble == InitAssemble /\ [][NextAssemble]_vars

(***************************************************************************)
(* Properties of generate_summary (checked under Spec).                    *)
(***************************************************************************)
HasMarker(error_str) == Contains(error_str, RateLimitMarker)
\* the failed attempts of the current file that were followed by a backoff
BackoffCount == Cardinality({i \in 1..Len(errs) : i < 3 /\ HasMarker(errs[i])})

C2_FallbackAfterThreeFailures ==
    /\ serviceCalls <= 3
    /\ Len(errs) <= 3
    /\ Len(errs) = 3 =>
          /\ serviceCalls = 3
          /\ pc \notin {"gen", "aborted"}
          /\ summaries.from = "fallback"
          /\ summaries.value.t = "list"
          /\ Len(summaries.value.v) = 1
          /\ summaries.value.v[1].t = "dict"
          /\ summaries.value.v[1].v.header = JStr(Overview)
          /\ pc = "assemble" =>
                Contains(summaries.value.v[1].v.summary.v, FilenameOf(args[idx]))

C2_Witness ==
    /\ pc = "assemble"
    /\ errs = <<ErrRateLimit, ErrParse, ErrServer>>
    /\ summaries.from = "fallback"
    /\ FilenameOf(args[idx]) = HooksFile

\* C3: after a rate-limit failure on the first and on the second attempt
\* and a success on the third, generate_summary returns the parsed reply of
\* the third attempt, not the fallback, having slept 2 after the first
\* failure and 4 after the second (the 1 before them is the pacing sleep of
\* main).
C3_RetryThenSucceed ==
    (/\ pc = "assemble"
     /\ Len(errs) = 2
     /\ HasMarker(errs[1])
     /\ HasMarker(errs[2])) =>
        /\ summaries.from = "parsed"
        /\ summaries.value \in Replies
        /\ serviceCalls = 3
        /\ sleeps = <<1, 2, 4>>

C3_Witness ==
    /\ pc = "assemble"
    /\ errs = <<ErrRateLimit, ErrRateLimit>>
    /\ summaries = [from |-> "parsed", value |-> ReplySections]
    /\ sleeps = <<1, 2, 4>>

(***************************************************************************)
(* Properties of update_json_data (checked under SpecStore).               *)
(***************************************************************************)
\* C4: a call with a non-empty entry list persists and returns the
\* previously persisted history with exactly one new batch inserted at
\* index 0: one longer, every earlier batch still there, unmodified and in
\* the same order; and no call ever removes, reorders or merges batches.
C4_PrependOneBatch ==
    [][LET old == load_changelog(changelog)
           new == load_changelog(changelog')
       IN /\ Len(new) >= Len(old)
          /\ SubSeq(new, Len(new) - Len(old) + 1, Len(new)) = old
          /\ (pc = "store" /\ updates' # <<>>) =>
                /\ changelog'.kind = "json"
                /\ Len(new) = Len(old) + 1
                /\ new[1].entries = updates'
                /\ new[1].commit_hash = commit_hash'
                /\ new[1].date \in Dates
                /\ ret' = new]_vars

\* two equal batches stand next to each other: nothing was deduplicated
C4_Witness ==
    /\ pc = "store"
    /\ updates # <<>>
    /\ changelog.kind = "json"
    /\ Len(changelog.value) = 3
    /\ changelog.value[1] = changelog.value[2]
    /\ changelog.value[3] # changelog.value[1]
    /\ ret = changelog.value

\* C5: a call with an empty entry list returns the current history and
\* writes nothing, so the persisted history never holds a batch whose
\* entries list is empty.
C5_EmptyIsNoOp ==
    [][/\ (pc = "store" /\ updates' = <<>>) =>
             /\ changelog' = changelog
             /\ ret' = load_changelog(changelog)
       /\ \A i \in 1..Len(load_changelog(changelog')) :
             load_changelog(changelog')[i].entries # <<>>]_vars

C5_Witness ==
    /\ pc = "store"
    /\ updates = <<>>
    /\ commit_hash # JNull
    /\ changelog.kind = "json"
    /\ Len(changelog.value) = 2
    /\ ret = changelog.value

(***************************************************************************)
(* Properties of main (checked under Spec).                                *)
(***************************************************************************)
AtArg == pc = "loop" /\ idx <= Len(args)

C7_ModifiedEntriesCarryDiffFile ==
    \A i \in 1..Len(updates) :
        (updates[i].tag_text = "UPDATE") <=> ("diff_file" \in DOMAIN updates[i])

\* C8: an argument whose base name does not end in .md, whatever its status
\* prefix, adds no entry, triggers no diff/content query and no call of the
\* summarization service, and the loop goes on with the next argument.
C8_OtherFilesSkipped ==
    [][(AtArg /\ ~EndsWith(FilenameOf(args[idx]), DocExt)) =>
           /\ updates' = updates
           /\ providerCalls' = 0
           /\ serviceCalls' = 0
           /\ pc' = "loop"
           /\ idx' = idx + 1]_vars

\* "M:md" was skipped and the documentation file after it was summarized
C8_Witness ==
    /\ pc = "loop"
    /\ idx = 3
    /\ args = <<ArgModifiedTxt, ArgBareDoc>>
    /\ Len(updates) = 2
    /\ serviceCalls = 1

\* C10 as stated: no failure while handling one file aborts the run; a
\* malformed reply (parsable but not a list of {header, summary} objects)
\* is handled as a failed attempt.
C10_NoFileAbortsTheRun ==
    /\ pc # "aborted"
    /\ (pc = "assemble" /\ summaries.from = "parsed") => summaries.value \in WellFormedReplies

(***************************************************************************)
(* Properties of the entry assembly (checked under SpecAssemble).          *)
(***************************************************************************)
Assembled == pc = "loop" /\ idx = 2 /\ Len(updates) = 1
AssembledHeader == summaries.value.v[1].v.header.v
AssembledFile == FilenameOf(args[1])
HooksTop == base_url \o <<"/", "h", "o", "o", "k", "s">>
HooksCustomToolConfig ==
    HooksTop \o <<"#", "c", "u", "s", "t", "o", "m", "-", "t", "o", "o", "l", "-",
                  "c", "o", "n", "f", "i", "g">>

====
